---------------------------- MODULE Spec2Model ----------------------------
(***************************************************************************)
(* A model of gpio_controller: the GPIO service (services.py), the action  *)
(* views (views.py) with their serializers (serializers.py), the registry  *)
(* models (models.py) and the provisioning command (init_gpio_devices.py). *)
(*                                                                         *)
(* Durations are counted in hundredths of a second (0.5 s is 50).          *)
(***************************************************************************)
EXTENDS Integers, Sequences, FiniteSets, TLC

VARIABLES
    gpioImport,     \* outcome of "import RPi.GPIO" (services.py 6-14)
    gpio_service,   \* the module global _gpio_service (services.py 264)
    hw,             \* state of the RPi.GPIO library: mode, output pins, levels
    hwTouched,      \* TRUE once any GPIO.* function has been called
    conns,          \* rows of GPIOConnection
    devs,           \* rows of JetsonNanoDevice
    nextConnId,     \* next primary key of GPIOConnection
    nextDevId,      \* next primary key of JetsonNanoDevice
    calls,          \* per request thread: the call or request being served
    lastProv,       \* outcome of the latest run of init_gpio_devices
    badPins,        \* the channels for which GPIO.setup raises on this board
    userOps         \* number of registry changes made through the API so far

vars == <<gpioImport, gpio_service, hw, hwTouched, conns, devs,
          nextConnId, nextDevId, calls, lastProv, badPins, userOps>>

registryVars == <<conns, devs, nextConnId, nextDevId, lastProv, userOps>>

envVars == <<gpioImport, badPins>>

(***************************************************************************)
(* Bounds of the model.                                                    *)
(***************************************************************************)
MaxUserOps == 2

\* The request threads. With one thread the calls and requests of a behaviour
\* run one after another, each to its end.
Threads == {"t1"}

(***************************************************************************)
(* Program constants.                                                      *)
(***************************************************************************)
DefaultPulse == 50
DefaultHold == 200
SettleDelay == 50
ResetDefault == 50
ResetMin == 10
ResetMax == 500
HoldDefault == 200
HoldMin == 50
HoldMax == 1000
HTTP_200_OK == 200
HTTP_400_BAD_REQUEST == 400
HTTP_404_NOT_FOUND == 404
HTTP_500_INTERNAL_SERVER_ERROR == 500

pin_pairs == << <<26, 19>>, <<13, 6>>, <<5, 11>>, <<9, 10>>,
                <<22, 27>>, <<17, 4>>, <<3, 2>> >>

Pins == {pin_pairs[i][1] : i \in 1..Len(pin_pairs)}
            \cup {pin_pairs[i][2] : i \in 1..Len(pin_pairs)}

HIGH == "HIGH"
LOW == "LOW"
Floating == "NA"
ABSENT == -1
NoConn == 0

(***************************************************************************)
(* services.py 6-14: HAS_GPIO is True only when the import succeeded.      *)
(***************************************************************************)
ImportOutcomes == {"ok", "RuntimeError", "ImportError"}

HAS_GPIO == gpioImport = "ok"

(***************************************************************************)
(* The instructions an engine method executes inside its try block.        *)
(***************************************************************************)
W(pin, lvl) == [k |-> "write", pin |-> pin, lvl |-> lvl, d |-> 0]

S(d) == [k |-> "sleep", pin |-> 0, lvl |-> "-", d |-> d]

\* A variant of pulse_pin with the two levels exchanged.
pulse_pin_inverted(pin, duration) == << W(pin, HIGH), S(duration), W(pin, LOW) >>

pulse_pin(pin, duration) == << W(pin, LOW), S(duration), W(pin, HIGH) >>

hold_pin_low(pin, duration) == << W(pin, LOW), S(duration), W(pin, HIGH) >>

\* A variant of sequence_ab that releases pin_a before pin_b.
sequence_ab_releases_a_first(pin_a, pin_b, hold_time, pulse_duration) ==
    << W(pin_a, LOW), S(hold_time),
       W(pin_b, LOW), S(pulse_duration), W(pin_a, HIGH),
       S(SettleDelay), W(pin_b, HIGH) >>

sequence_ab(pin_a, pin_b, hold_time, pulse_duration) ==
    << W(pin_a, LOW), S(hold_time),
       W(pin_b, LOW), S(pulse_duration), W(pin_b, HIGH),
       S(SettleDelay), W(pin_a, HIGH) >>

\* A variant of sequence_ba left as a copy of sequence_ab: it holds pin_a and
\* pulses pin_b.
sequence_ba_unmirrored(pin_a, pin_b, hold_time, pulse_duration) ==
    << W(pin_a, LOW), S(hold_time),
       W(pin_b, LOW), S(pulse_duration), W(pin_b, HIGH),
       S(SettleDelay), W(pin_a, HIGH) >>

sequence_ba(pin_a, pin_b, hold_time, pulse_duration) ==
    << W(pin_b, LOW), S(hold_time),
       W(pin_a, LOW), S(pulse_duration), W(pin_a, HIGH),
       S(SettleDelay), W(pin_b, HIGH) >>

force_recovery_sequence(force_recovery_pin, reset_pin, hold_time) ==
    sequence_ab(force_recovery_pin, reset_pin, hold_time, DefaultPulse)

\* A variant of set_pin_state with the two levels exchanged.
set_pin_state_inverted(pin, state) == << W(pin, IF state THEN LOW ELSE HIGH) >>

set_pin_state(pin, state) == << W(pin, IF state THEN HIGH ELSE LOW) >>


(***************************************************************************)
(* The service object and the RPi.GPIO library behind it.                  *)
(***************************************************************************)
\* id tells the instances of one process apart: it is the rank of the
\* instance among those constructed since the last cleanup_gpio().
NoService == [exists |-> FALSE, initialized |-> FALSE, init |-> "none", id |-> 0]

HwReset == [mode |-> FALSE, out |-> {}, level |-> [p \in Pins |-> Floating]]

\* services.py 30-48: __init__ and _init_gpio. setmodeOk is whether
\* GPIO.setmode returns (TRUE) or raises (FALSE); it is read only with HAS_GPIO.
GPIOService(setmodeOk) ==
    IF ~HAS_GPIO
    THEN [exists |-> TRUE, initialized |-> FALSE, init |-> "no_gpio", id |-> 1]
    ELSE IF setmodeOk
         THEN [exists |-> TRUE, initialized |-> TRUE, init |-> "ok", id |-> 1]
         ELSE [exists |-> TRUE, initialized |-> FALSE, init |-> "setmode_raised",
               id |-> 1]

\* services.py 271: _gpio_service = GPIOService(), from library state h: the
\* new instance, the library state and the hardware-call flag.
NewService(h, touched, setmodeOk) ==
    [svc |-> GPIOService(setmodeOk),
     hw |-> IF HAS_GPIO /\ setmodeOk THEN [h EXCEPT !.mode = TRUE] ELSE h,
     touched |-> touched \/ HAS_GPIO]

\* services.py 267-272: the service, the library state and the hardware-call
\* flag after get_gpio_service() returns.
get_gpio_service(setmodeOk) ==
    IF gpio_service.exists
    THEN [svc |-> gpio_service, hw |-> hw, touched |-> hwTouched]
    ELSE NewService(hw, hwTouched, setmodeOk)

\* The outcomes of GPIO.setmode that matter to a get_gpio_service() call.
SetmodeOutcomes ==
    IF gpio_service.exists \/ ~HAS_GPIO THEN {TRUE} ELSE BOOLEAN

\* services.py 50-68: setup_pins on service svc, from library state h. The
\* first GPIO.setup that raises ends the try block.
setup_pins(svc, h, reset_pin, recovery_pin) ==
    IF ~HAS_GPIO \/ ~svc.initialized THEN h
    ELSE IF reset_pin \in badPins THEN h
    ELSE IF recovery_pin \in badPins
         THEN [h EXCEPT !.out = @ \cup {reset_pin},
                        !.level = [@ EXCEPT ![reset_pin] = HIGH]]
         ELSE [h EXCEPT !.out = @ \cup {reset_pin, recovery_pin},
                        !.level = [p \in Pins |->
                                     IF p \in {reset_pin, recovery_pin}
                                     THEN HIGH ELSE @[p]]]

\* Whether setup_pins calls into the library at all.
setup_pins_touches(svc) == HAS_GPIO /\ svc.initialized

\* services.py 70-77: cleanup calls GPIO.cleanup() only on an initialized
\* hardware backend.
cleanup_touches(svc) == HAS_GPIO /\ svc.initialized

\* A variant of the prologue without the HAS_GPIO test.
EngineGuard_no_mock(svc) ==
    IF svc.initialized THEN "run" ELSE "not_initialized"

\* services.py 90-95 (and 120-125, 153-158, 194-199, 247-252): the common
\* prologue of every pin operation.
EngineGuard(svc) ==
    IF ~HAS_GPIO THEN "mock"
    ELSE IF svc.initialized THEN "run"
    ELSE "not_initialized"

(***************************************************************************)
(* One request thread: what it is serving and how far it has got.          *)
(***************************************************************************)
NoReq == [conn |-> 0, dev |-> 0, duration |-> ABSENT, hold_time |-> ABSENT,
          pin |-> "absent", state |-> "absent"]

NoArgs == [a |-> 0, b |-> 0, hold |-> 0, pulse |-> 0, state |-> FALSE]

NoResp == [status |-> 0, keys |-> {}, success |-> "absent"]

IdleFrame ==
    [phase |-> "idle", handler |-> "none", req |-> NoReq, found |-> FALSE,
     op |-> "none", args |-> NoArgs, prog |-> <<>>, pc |-> 0,
     trace |-> <<>>, failed |-> FALSE, result |-> "none",
     svcInit |-> "none", svc |-> NoService, resp |-> NoResp]

Ev(instr, ok) ==
    [k |-> instr.k, pin |-> instr.pin, lvl |-> instr.lvl, d |-> instr.d, ok |-> ok]

\* A variant of the mock branch that skips only the hardware writes: the
\* method still goes through its statements, sleeps included.
EnterEngine_sleeps_in_mock(base, svc, op, args, prog) ==
    LET f == [base EXCEPT !.op = op, !.args = args, !.svcInit = svc.init]
    IN  IF EngineGuard(svc) = "not_initialized"
        THEN [f EXCEPT !.phase = "returned", !.result = "False"]
        ELSE [f EXCEPT !.phase = "running", !.prog = prog, !.pc = 1]

\* The frame of a thread that has entered engine method op on service svc.
EnterEngine(base, svc, op, args, prog) ==
    LET f == [base EXCEPT !.op = op, !.args = args, !.svcInit = svc.init]
        g == EngineGuard(svc)
    IN  IF g = "mock" THEN [f EXCEPT !.phase = "returned", !.result = "True"]
        ELSE IF g = "not_initialized"
             THEN [f EXCEPT !.phase = "returned", !.result = "False"]
             ELSE [f EXCEPT !.phase = "running", !.prog = prog, !.pc = 1]

\* A variant of the except clause that tries the failed write again: the
\* method stays at the statement that raised.
OnWriteFailure_retry(f) == [f EXCEPT !.failed = TRUE]

\* A variant of the except clause that swallows the exception of one write
\* and goes on with the next statement.
OnWriteFailure_continue(f) ==
    LET g == [f EXCEPT !.trace = Append(@, Ev(f.prog[f.pc], FALSE)),
                       !.failed = TRUE, !.pc = @ + 1]
    IN  IF f.pc = Len(f.prog)
        THEN [g EXCEPT !.phase = "returned", !.result = "False"]
        ELSE g

\* services.py 103-105 (and 133-135, 175-177, 216-218, 256-258): the except
\* clause: the exception of a write is logged and the method returns False.
OnWriteFailure(f) ==
    [f EXCEPT !.trace = Append(@, Ev(f.prog[f.pc], FALSE)),
              !.failed = TRUE, !.phase = "returned", !.result = "False"]

\* A statement of the try block that completes: the next one follows, and the
\* method returns True after the last.
OnStepDone(f) ==
    LET g == [f EXCEPT !.trace = Append(@, Ev(f.prog[f.pc], TRUE)), !.pc = @ + 1]
    IN  IF f.pc = Len(f.prog)
        THEN [g EXCEPT !.phase = "returned", !.result = "True"]
        ELSE g

\* GPIO.output(pin, lvl) that returns: the level of the pin changes.
gpio_output(h, pin, lvl) == [h EXCEPT !.level = [@ EXCEPT ![pin] = lvl]]

(***************************************************************************)
(* views.py: the responses of the action views.                            *)
(***************************************************************************)
ActionKeys ==
    {"connection_id", "connection_name", "action", "reset_pin",
     "recovery_pin", "success", "message", "timestamp"}

\* A variant of the status choice that ignores the outcome.
StatusOf_always_ok(success) == HTTP_200_OK

\* views.py 86-89, 125-128, 177-180: the status of an action response.
StatusOf(success) ==
    IF success THEN HTTP_200_OK ELSE HTTP_500_INTERNAL_SERVER_ERROR

\* views.py 75-89 and 114-128: response_data of reset and force_recovery.
ActionResponse(success) ==
    [status |-> StatusOf(success), keys |-> ActionKeys,
     success |-> IF success THEN "true" ELSE "false"]

\* views.py 163-180: response_data of set_pin.
SetPinResponse(success) ==
    [status |-> StatusOf(success),
     keys |-> ActionKeys \cup {"pin", "pin_number", "state"},
     success |-> IF success THEN "true" ELSE "false"]

\* views.py 147-150, 153-156, 232-235, 247-250: the error bodies the views
\* build themselves.
ErrorResponse(status) ==
    [status |-> status, keys |-> {"error"}, success |-> "absent"]

\* views.py 68, 103: is_valid(raise_exception=True) answers 400 with the
\* errors keyed by field name.
ValidationResponse(field) ==
    [status |-> HTTP_400_BAD_REQUEST, keys |-> {field}, success |-> "absent"]

\* views.py 66, 101, 141, 212, 244: get_object() answers 404 for an unknown pk.
NotFoundResponse ==
    [status |-> HTTP_404_NOT_FOUND, keys |-> {"detail"}, success |-> "absent"]

\* views.py 220-230, 256-266: the success bodies of connect and disconnect.
DeviceResponse ==
    [status |-> HTTP_200_OK,
     keys |-> {"device_id", "device_name", "message", "success", "timestamp"},
     success |-> "true"]

\* What the view answers once the engine method has returned.
Respond(f) ==
    IF f.phase # "returned" \/ f.handler \notin {"reset", "force_recovery", "set_pin"}
    THEN f
    ELSE [f EXCEPT !.phase = "responded",
                   !.resp = IF f.handler = "set_pin"
                            THEN SetPinResponse(f.result = "True")
                            ELSE ActionResponse(f.result = "True")]

(***************************************************************************)
(* serializers.py: validation of the action bodies.                        *)
(***************************************************************************)
\* A variant of the duration field whose bounds are exclusive.
ResetActionSerializer_valid_strict(duration) ==
    duration = ABSENT \/ (duration > ResetMin /\ duration < ResetMax)

\* serializers.py 26: duration, FloatField(default=0.5, min 0.1, max 5.0).
ResetActionSerializer_valid(duration) ==
    duration = ABSENT \/ (duration >= ResetMin /\ duration <= ResetMax)

ResetActionSerializer_value(duration) ==
    IF duration = ABSENT THEN ResetDefault ELSE duration

\* serializers.py 33: hold_time, FloatField(default=2.0, min 0.5, max 10.0).
ForceRecoveryActionSerializer_valid(hold_time) ==
    hold_time = ABSENT \/ (hold_time >= HoldMin /\ hold_time <= HoldMax)

ForceRecoveryActionSerializer_value(hold_time) ==
    IF hold_time = ABSENT THEN HoldDefault ELSE hold_time

\* views.py 146: the pin name check of set_pin.
SetPinNameValid(pin_name) == pin_name \in {"reset", "force_recovery"}

\* views.py 152: the state check of set_pin ("string" stands for any value
\* that is not a JSON boolean).
SetPinStateValid(state) == state \in {"true", "false"}

\* A variant of force_recovery that hands the two pins over in the other order.
ForceRecoveryPins_swapped(c) == <<c.reset, c.force_recovery>>

\* views.py 108-112: the pins force_recovery hands to the engine, in order.
ForceRecoveryPins(c) == <<c.force_recovery, c.reset>>

\* A variant of the pin choice with the two names exchanged.
SetPinTarget_swapped(c, pin_name) ==
    IF pin_name = "reset" THEN c.force_recovery ELSE c.reset

\* views.py 158: the pin set_pin addresses.
SetPinTarget(c, pin_name) ==
    IF pin_name = "reset" THEN c.reset ELSE c.force_recovery

(***************************************************************************)
(* Registry lookups.                                                       *)
(***************************************************************************)
ConnById(pk) == {c \in conns : c.id = pk}

DevById(pk) == {d \in devs : d.id = pk}

TheOne(xs) == CHOOSE x \in xs : TRUE

(***************************************************************************)
(* Inputs.                                                                 *)
(***************************************************************************)
EnginePins == {19, 26}

HoldChoices == {DefaultHold, HoldMax}

PulseChoices == {DefaultPulse, ResetMin}

RequestConnIds == {1, 2, 3}

RequestDevIds == {1, 2, 3}

DurationInputs == {ABSENT, ResetMin - 1, ResetMin, ResetMax, ResetMax + 1}

HoldTimeInputs == {ABSENT, HoldMin - 1, HoldMin, HoldMax, HoldMax + 1}

PinNameInputs == {"reset", "force_recovery", "gpio5", "absent"}

StateInputs == {"true", "false", "string", "absent"}

(***************************************************************************)
(* Direct calls of the GPIOService methods.                                *)
(***************************************************************************)
StartEngine(t, op, args, prog, setmodeOk) ==
    /\ calls[t].phase = "idle"
    /\ LET g == get_gpio_service(setmodeOk)
       IN  /\ gpio_service' = g.svc
           /\ hw' = g.hw
           /\ hwTouched' = g.touched
           /\ calls' = [calls EXCEPT ![t] =
                  EnterEngine([IdleFrame EXCEPT !.handler = "direct"],
                              g.svc, op, args, prog)]
    /\ UNCHANGED <<envVars, registryVars>>

Call_pulse_pin(t) ==
    \E pin \in EnginePins, d \in PulseChoices, sm \in SetmodeOutcomes :
        StartEngine(t, "pulse_pin", [NoArgs EXCEPT !.a = pin, !.pulse = d],
                    pulse_pin(pin, d), sm)

Call_hold_pin_low(t) ==
    \E pin \in EnginePins, d \in HoldChoices, sm \in SetmodeOutcomes :
        StartEngine(t, "hold_pin_low", [NoArgs EXCEPT !.a = pin, !.hold = d],
                    hold_pin_low(pin, d), sm)

Call_sequence_ab(t) ==
    \E a \in EnginePins, b \in EnginePins, h \in HoldChoices,
       d \in PulseChoices, sm \in SetmodeOutcomes :
        StartEngine(t, "sequence_ab",
                    [NoArgs EXCEPT !.a = a, !.b = b, !.hold = h, !.pulse = d],
                    sequence_ab(a, b, h, d), sm)

Call_sequence_ba(t) ==
    \E a \in EnginePins, b \in EnginePins, h \in HoldChoices,
       d \in PulseChoices, sm \in SetmodeOutcomes :
        StartEngine(t, "sequence_ba",
                    [NoArgs EXCEPT !.a = a, !.b = b, !.hold = h, !.pulse = d],
                    sequence_ba(a, b, h, d), sm)

Call_force_recovery_sequence(t) ==
    \E fr \in EnginePins, rs \in EnginePins, h \in HoldChoices,
       sm \in SetmodeOutcomes :
        StartEngine(t, "force_recovery_sequence",
                    [NoArgs EXCEPT !.a = fr, !.b = rs, !.hold = h],
                    force_recovery_sequence(fr, rs, h), sm)

Call_set_pin_state(t) ==
    \E pin \in EnginePins, st \in BOOLEAN, sm \in SetmodeOutcomes :
        StartEngine(t, "set_pin_state", [NoArgs EXCEPT !.a = pin, !.state = st],
                    set_pin_state(pin, st), sm)

\* get_gpio_service().setup_pins(reset_pin, recovery_pin)
Call_setup_pins(t) ==
    \E r \in EnginePins, f \in EnginePins, sm \in SetmodeOutcomes :
        /\ calls[t].phase = "idle"
        /\ LET g == get_gpio_service(sm)
           IN  /\ gpio_service' = g.svc
               /\ hw' = setup_pins(g.svc, g.hw, r, f)
               /\ hwTouched' = (g.touched \/ setup_pins_touches(g.svc))
        /\ UNCHANGED <<envVars, calls, registryVars>>

\* A variant of GPIOService.cleanup without the try statement.
cleanup_outcome_unguarded(raised) == IF raised THEN "raised" ELSE "None"

\* services.py 72-77: how GPIOService.cleanup() ends when GPIO.cleanup()
\* raised, or did not: the except clause logs the exception.
cleanup_outcome(raised) == "None"

\* The frame of a cleanup_gpio() call that found instance svc in the module
\* variable and ended with result.
CleanupFrame(svc, result) ==
    [IdleFrame EXCEPT !.handler = "cleanup_gpio", !.phase = "returned",
                      !.svc = svc, !.result = result]

\* services.py 275-280: cleanup_gpio(). GPIO.cleanup() either returns, and the
\* library is back to its initial state, or raises, and may or may not have
\* released the channels.
cleanup_gpio(t) ==
    /\ calls[t].phase = "idle"
    /\ IF gpio_service.exists
       THEN /\ gpio_service' = NoService
            /\ IF cleanup_touches(gpio_service)
               THEN /\ hwTouched' = TRUE
                    /\ \E raised \in BOOLEAN :
                          /\ hw' \in (IF raised THEN {hw, HwReset} ELSE {HwReset})
                          /\ calls' = [calls EXCEPT ![t] =
                                CleanupFrame(gpio_service, cleanup_outcome(raised))]
               ELSE /\ UNCHANGED <<hw, hwTouched>>
                    /\ calls' = [calls EXCEPT ![t] =
                          CleanupFrame(gpio_service, cleanup_outcome(FALSE))]
       ELSE /\ UNCHANGED <<gpio_service, hw, hwTouched>>
            /\ calls' = [calls EXCEPT ![t] = CleanupFrame(NoService, "None")]
    /\ UNCHANGED <<envVars, registryVars>>

\* A variant with a lock around the try block: a method goes past its first
\* statement only while no other call is past its own.
may_proceed_under_lock(t) ==
    \/ calls[t].pc > 1
    \/ \A u \in DOMAIN calls \ {t} :
          ~(calls[u].phase = "running" /\ calls[u].pc > 1)

\* services.py 94-102, 157-174: what a statement of a try block waits for
\* before it runs: nothing. No lock is acquired around the writes and the
\* sleeps of a method, whatever the other callers are doing.
may_proceed(t) == TRUE

\* One statement of the try block of the running method: a sleep, or a
\* GPIO.output that returns or raises.
Step(t) ==
    /\ calls[t].phase = "running"
    /\ may_proceed(t)
    /\ LET f == calls[t]
           instr == f.prog[f.pc]
       IN  IF instr.k = "sleep"
           THEN /\ calls' = [calls EXCEPT ![t] = Respond(OnStepDone(f))]
                /\ UNCHANGED <<hw, hwTouched>>
           ELSE /\ hwTouched' = TRUE
                /\ \E ok \in BOOLEAN :
                     IF ok
                     THEN /\ hw' = gpio_output(hw, instr.pin, instr.lvl)
                          /\ calls' = [calls EXCEPT ![t] = Respond(OnStepDone(f))]
                     ELSE /\ hw' = hw
                          /\ calls' = [calls EXCEPT ![t] = Respond(OnWriteFailure(f))]
    /\ UNCHANGED <<envVars, gpio_service, registryVars>>

\* The caller has its result (or the client its response): the thread is free.
Return(t) ==
    /\ calls[t].phase \in {"returned", "responded"}
    /\ calls' = [calls EXCEPT ![t] = IdleFrame]
    /\ UNCHANGED <<envVars, gpio_service, hw, hwTouched, registryVars>>

(***************************************************************************)
(* The engine on its own: a program that imports services.py and calls     *)
(* the methods of the service.                                             *)
(***************************************************************************)
NoProv == [ran |-> FALSE, ok |-> FALSE, fresh |-> FALSE, after_ok |-> FALSE,
           same |-> FALSE, created_connections |-> 0, created_devices |-> 0,
           startup |-> "none"]

BadPinChoices == { {}, {19} }

InitProcess ==
    /\ gpioImport \in ImportOutcomes
    /\ badPins \in BadPinChoices
    /\ gpio_service = NoService
    /\ hw = HwReset
    /\ hwTouched = FALSE
    /\ calls = [t \in Threads |-> IdleFrame]
    /\ lastProv = NoProv
    /\ userOps = 0

InitEngine ==
    /\ InitProcess
    /\ conns = {}
    /\ devs = {}
    /\ nextConnId = 1
    /\ nextDevId = 1

NextEngine ==
    \E t \in Threads :
        \/ Call_pulse_pin(t)
        \/ Call_hold_pin_low(t)
        \/ Call_sequence_ab(t)
        \/ Call_sequence_ba(t)
        \/ Call_force_recovery_sequence(t)
        \/ Call_set_pin_state(t)
        \/ Call_setup_pins(t)
        \/ cleanup_gpio(t)
        \/ Step(t)
        \/ Return(t)

SpecEngine == InitEngine /\ [][NextEngine]_vars

(***************************************************************************)
(* views.py: the action views. A view runs on one request thread; the      *)
(* statements of the engine method it calls are the steps of that thread.  *)
(***************************************************************************)
ViewFrame(handler, req, found) ==
    [IdleFrame EXCEPT !.handler = handler, !.req = req, !.found = found]

Answer(handler, req, found, resp) ==
    [ViewFrame(handler, req, found) EXCEPT !.phase = "responded", !.resp = resp]

\* A variant of the action views that marks the connection as used: the row
\* is saved with is_enabled set.
after_pin_action_saves(cs) == {[c EXCEPT !.is_enabled = TRUE] : c \in cs}

\* views.py 56-180: what reset, force_recovery and set_pin leave of the
\* connections: they read the row (get_object) and never save it.
after_pin_action(cs) == cs

\* views.py 56-89: GPIOConnectionViewSet.reset
reset(t) ==
    \E pk \in RequestConnIds, duration \in DurationInputs, sm \in SetmodeOutcomes :
        LET req == [NoReq EXCEPT !.conn = pk, !.duration = duration]
        IN  /\ calls[t].phase = "idle"
            /\ IF ConnById(pk) = {}
               THEN /\ calls' = [calls EXCEPT ![t] =
                            Answer("reset", req, FALSE, NotFoundResponse)]
                    /\ UNCHANGED <<gpio_service, hw, hwTouched>>
               ELSE IF ~ResetActionSerializer_valid(duration)
               THEN /\ calls' = [calls EXCEPT ![t] =
                            Answer("reset", req, TRUE, ValidationResponse("duration"))]
                    /\ UNCHANGED <<gpio_service, hw, hwTouched>>
               ELSE LET connection == TheOne(ConnById(pk))
                        d == ResetActionSerializer_value(duration)
                        g == get_gpio_service(sm)
                    IN  /\ gpio_service' = g.svc
                        /\ hw' = g.hw
                        /\ hwTouched' = g.touched
                        /\ calls' = [calls EXCEPT ![t] = Respond(
                              EnterEngine(ViewFrame("reset", req, TRUE), g.svc,
                                  "pulse_pin",
                                  [NoArgs EXCEPT !.a = connection.reset, !.pulse = d],
                                  pulse_pin(connection.reset, d)))]
            /\ conns' = after_pin_action(conns)
            /\ UNCHANGED <<envVars, devs, nextConnId, nextDevId, lastProv, userOps>>

\* views.py 91-128: GPIOConnectionViewSet.force_recovery
force_recovery(t) ==
    \E pk \in RequestConnIds, hold_time \in HoldTimeInputs, sm \in SetmodeOutcomes :
        LET req == [NoReq EXCEPT !.conn = pk, !.hold_time = hold_time]
        IN  /\ calls[t].phase = "idle"
            /\ IF ConnById(pk) = {}
               THEN /\ calls' = [calls EXCEPT ![t] =
                            Answer("force_recovery", req, FALSE, NotFoundResponse)]
                    /\ UNCHANGED <<gpio_service, hw, hwTouched>>
               ELSE IF ~ForceRecoveryActionSerializer_valid(hold_time)
               THEN /\ calls' = [calls EXCEPT ![t] =
                            Answer("force_recovery", req, TRUE,
                                   ValidationResponse("hold_time"))]
                    /\ UNCHANGED <<gpio_service, hw, hwTouched>>
               ELSE LET connection == TheOne(ConnById(pk))
                        h == ForceRecoveryActionSerializer_value(hold_time)
                        pins == ForceRecoveryPins(connection)
                        g == get_gpio_service(sm)
                    IN  /\ gpio_service' = g.svc
                        /\ hw' = g.hw
                        /\ hwTouched' = g.touched
                        /\ calls' = [calls EXCEPT ![t] = Respond(
                              EnterEngine(ViewFrame("force_recovery", req, TRUE), g.svc,
                                  "force_recovery_sequence",
                                  [NoArgs EXCEPT !.a = pins[1], !.b = pins[2], !.hold = h],
                                  force_recovery_sequence(pins[1], pins[2], h)))]
            /\ conns' = after_pin_action(conns)
            /\ UNCHANGED <<envVars, devs, nextConnId, nextDevId, lastProv, userOps>>

\* views.py 130-180: GPIOConnectionViewSet.set_pin
set_pin(t) ==
    \E pk \in RequestConnIds, pin_name \in PinNameInputs, state \in StateInputs,
       sm \in SetmodeOutcomes :
        LET req == [NoReq EXCEPT !.conn = pk, !.pin = pin_name, !.state = state]
        IN  /\ calls[t].phase = "idle"
            /\ IF ConnById(pk) = {}
               THEN /\ calls' = [calls EXCEPT ![t] =
                            Answer("set_pin", req, FALSE, NotFoundResponse)]
                    /\ UNCHANGED <<gpio_service, hw, hwTouched>>
               ELSE IF ~SetPinNameValid(pin_name) \/ ~SetPinStateValid(state)
               THEN /\ calls' = [calls EXCEPT ![t] =
                            Answer("set_pin", req, TRUE,
                                   ErrorResponse(HTTP_400_BAD_REQUEST))]
                    /\ UNCHANGED <<gpio_service, hw, hwTouched>>
               ELSE LET connection == TheOne(ConnById(pk))
                        pin == SetPinTarget(connection, pin_name)
                        g == get_gpio_service(sm)
                    IN  /\ gpio_service' = g.svc
                        /\ hw' = g.hw
                        /\ hwTouched' = g.touched
                        /\ calls' = [calls EXCEPT ![t] = Respond(
                              EnterEngine(ViewFrame("set_pin", req, TRUE), g.svc,
                                  "set_pin_state",
                                  [NoArgs EXCEPT !.a = pin, !.state = (state = "true")],
                                  set_pin_state(pin, state = "true")))]
            /\ conns' = after_pin_action(conns)
            /\ UNCHANGED <<envVars, devs, nextConnId, nextDevId, lastProv, userOps>>

\* views.py 202-235: JetsonNanoDeviceViewSet.connect (connection_id NoConn
\* stands for a body without connection_id).
connect(t) ==
    \E pk \in RequestDevIds, connection_id \in RequestConnIds \cup {NoConn} :
        LET req == [NoReq EXCEPT !.dev = pk, !.conn = connection_id]
        IN  /\ calls[t].phase = "idle"
            /\ IF DevById(pk) = {}
               THEN /\ calls' = [calls EXCEPT ![t] =
                            Answer("connect", req, FALSE, NotFoundResponse)]
                    /\ UNCHANGED devs
               ELSE IF ConnById(connection_id) = {}
               THEN /\ calls' = [calls EXCEPT ![t] =
                            Answer("connect", req, TRUE,
                                   ErrorResponse(HTTP_404_NOT_FOUND))]
                    /\ UNCHANGED devs
               ELSE /\ devs' = {IF d.id = pk
                                THEN [d EXCEPT !.connected_to = connection_id]
                                ELSE d : d \in devs}
                    /\ calls' = [calls EXCEPT ![t] =
                            Answer("connect", req, TRUE, DeviceResponse)]
            /\ UNCHANGED <<envVars, gpio_service, hw, hwTouched, conns,
                           nextConnId, nextDevId, lastProv, userOps>>

\* A variant of disconnect without the test of line 246: a device that is not
\* connected is written and answered like any other.
disconnect_unchecked(t) ==
    \E pk \in RequestDevIds :
        LET req == [NoReq EXCEPT !.dev = pk]
        IN  /\ calls[t].phase = "idle"
            /\ IF DevById(pk) = {}
               THEN /\ calls' = [calls EXCEPT ![t] =
                            Answer("disconnect", req, FALSE, NotFoundResponse)]
                    /\ UNCHANGED devs
               ELSE /\ devs' = {IF d.id = pk
                                THEN [d EXCEPT !.connected_to = NoConn]
                                ELSE d : d \in devs}
                    /\ calls' = [calls EXCEPT ![t] =
                            Answer("disconnect", req, TRUE, DeviceResponse)]
            /\ UNCHANGED <<envVars, gpio_service, hw, hwTouched, conns,
                           nextConnId, nextDevId, lastProv, userOps>>

\* views.py 237-266: JetsonNanoDeviceViewSet.disconnect
disconnect(t) ==
    \E pk \in RequestDevIds :
        LET req == [NoReq EXCEPT !.dev = pk]
        IN  /\ calls[t].phase = "idle"
            /\ IF DevById(pk) = {}
               THEN /\ calls' = [calls EXCEPT ![t] =
                            Answer("disconnect", req, FALSE, NotFoundResponse)]
                    /\ UNCHANGED devs
               ELSE IF TheOne(DevById(pk)).connected_to = NoConn
               THEN /\ calls' = [calls EXCEPT ![t] =
                            Answer("disconnect", req, TRUE,
                                   ErrorResponse(HTTP_400_BAD_REQUEST))]
                    /\ UNCHANGED devs
               ELSE /\ devs' = {IF d.id = pk
                                THEN [d EXCEPT !.connected_to = NoConn]
                                ELSE d : d \in devs}
                    /\ calls' = [calls EXCEPT ![t] =
                            Answer("disconnect", req, TRUE, DeviceResponse)]
            /\ UNCHANGED <<envVars, gpio_service, hw, hwTouched, conns,
                           nextConnId, nextDevId, lastProv, userOps>>

(***************************************************************************)
(* The action gateway: the views served over a registry that holds a       *)
(* provisioned connection, with or without a second one whose two pins     *)
(* are the same, and two devices.                                          *)
(***************************************************************************)
ConnName(reset_pin, recovery_pin) == <<"Jetson", reset_pin, recovery_pin>>

DevName(reset_pin, recovery_pin) == <<"Jetson-Nano", reset_pin, recovery_pin>>

Connection(id, name, reset_pin, recovery_pin, is_enabled) ==
    [id |-> id, name |-> name, reset |-> reset_pin,
     force_recovery |-> recovery_pin, is_enabled |-> is_enabled]

Device(id, name, connected_to) ==
    [id |-> id, name |-> name, connected_to |-> connected_to]

GatewayConns ==
    { {Connection(1, ConnName(26, 19), 26, 19, TRUE)},
      {Connection(1, ConnName(26, 19), 26, 19, TRUE),
       Connection(2, <<"bench", 0, 0>>, 13, 13, FALSE)} }

InitGateway ==
    /\ InitProcess
    /\ conns \in GatewayConns
    /\ devs = {Device(1, DevName(26, 19), 1), Device(2, <<"spare", 0, 0>>, NoConn)}
    /\ nextConnId = 3
    /\ nextDevId = 3

NextGateway ==
    \E t \in Threads :
        \/ reset(t)
        \/ force_recovery(t)
        \/ set_pin(t)
        \/ connect(t)
        \/ disconnect(t)
        \/ Step(t)
        \/ Return(t)

Spec == InitGateway /\ [][NextGateway]_vars

(***************************************************************************)
(* The registry (models.py) as the model viewsets change it.               *)
(***************************************************************************)
UserConnNames == {ConnName(13, 6), <<"bench", 0, 0>>}

UserPairs == {<<26, 19>>, <<19, 26>>, <<13, 6>>}

UserDevNames == {DevName(26, 19), <<"spare", 0, 0>>}

\* A variant of the constraints without unique_pin_pair: only names are
\* kept apart.
ConnectionConflicts_names_only(cs, name, reset_pin, recovery_pin) ==
    \E c \in cs : c.name = name

\* models.py 16 (name unique) and 28-30 (unique_pin_pair): whether a new row
\* with this name and these pins would violate a uniqueness constraint.
ConnectionConflicts(cs, name, reset_pin, recovery_pin) ==
    \E c \in cs : \/ c.name = name
                  \/ (c.reset = reset_pin /\ c.force_recovery = recovery_pin)

\* models.py 44 (name unique)
DeviceConflicts(ds, name) == \E d \in ds : d.name = name

\* views.py 49-54: create of GPIOConnectionViewSet with perform_create: the
\* row is saved, then its pins are set up. A row that violates a uniqueness
\* constraint is refused and nothing changes.
CreateConnection ==
    \E name \in UserConnNames, pair \in UserPairs, is_enabled \in BOOLEAN,
       sm \in SetmodeOutcomes :
        /\ userOps < MaxUserOps
        /\ IF ConnectionConflicts(conns, name, pair[1], pair[2])
           THEN UNCHANGED <<conns, nextConnId, lastProv, userOps,
                            gpio_service, hw, hwTouched>>
           ELSE LET g == get_gpio_service(sm)
                IN  /\ conns' = conns \cup
                          {Connection(nextConnId, name, pair[1], pair[2], is_enabled)}
                    /\ nextConnId' = nextConnId + 1
                    /\ lastProv' = [lastProv EXCEPT !.fresh = FALSE]
                    /\ userOps' = userOps + 1
                    /\ gpio_service' = g.svc
                    /\ hw' = setup_pins(g.svc, g.hw, pair[1], pair[2])
                    /\ hwTouched' = (g.touched \/ setup_pins_touches(g.svc))
        /\ UNCHANGED <<envVars, devs, nextDevId, calls>>

\* update of GPIOConnectionViewSet (PUT, PATCH): the row keeps its id and
\* takes the new name and pins, unless another row has them (models.py 16,
\* 28-30); perform_update is not overridden, so no pin is set up.
UpdateConnection ==
    \E c \in conns, name \in UserConnNames, pair \in UserPairs :
        /\ userOps < MaxUserOps
        /\ IF ConnectionConflicts(conns \ {c}, name, pair[1], pair[2])
           THEN UNCHANGED <<conns, lastProv, userOps>>
           ELSE /\ conns' = (conns \ {c}) \cup
                      {[c EXCEPT !.name = name, !.reset = pair[1],
                                 !.force_recovery = pair[2]]}
                /\ lastProv' = [lastProv EXCEPT !.fresh = FALSE]
                /\ userOps' = userOps + 1
        /\ UNCHANGED <<envVars, gpio_service, hw, hwTouched, devs, nextConnId,
                       nextDevId, calls>>

\* A variant of the foreign key with on_delete=DO_NOTHING and no constraint
\* in the database: the devices keep the id of the deleted row.
on_delete_DO_NOTHING(ds, pk) == ds

\* models.py 45-51: on_delete=models.SET_NULL: the devices after the delete
\* of connection pk.
on_delete_SET_NULL(ds, pk) ==
    {IF d.connected_to = pk THEN [d EXCEPT !.connected_to = NoConn] ELSE d :
        d \in ds}

\* destroy of GPIOConnectionViewSet.
DeleteConnection ==
    \E pk \in {c.id : c \in conns} :
        /\ userOps < MaxUserOps
        /\ conns' = {c \in conns : c.id # pk}
        /\ devs' = on_delete_SET_NULL(devs, pk)
        /\ lastProv' = [lastProv EXCEPT !.fresh = FALSE]
        /\ userOps' = userOps + 1
        /\ UNCHANGED <<envVars, gpio_service, hw, hwTouched, nextConnId,
                       nextDevId, calls>>

\* create of JetsonNanoDeviceViewSet.
CreateDevice ==
    \E name \in UserDevNames, connected_to \in {c.id : c \in conns} \cup {NoConn} :
        /\ userOps < MaxUserOps
        /\ IF DeviceConflicts(devs, name)
           THEN UNCHANGED <<devs, nextDevId, lastProv, userOps>>
           ELSE /\ devs' = devs \cup {Device(nextDevId, name, connected_to)}
                /\ nextDevId' = nextDevId + 1
                /\ lastProv' = [lastProv EXCEPT !.fresh = FALSE]
                /\ userOps' = userOps + 1
        /\ UNCHANGED <<envVars, gpio_service, hw, hwTouched, conns,
                       nextConnId, calls>>

(***************************************************************************)
(* init_gpio_devices.py: the provisioning command.                         *)
(***************************************************************************)
\* A variant of the lookup with the two pins exchanged.
ExistingConnection_swapped(cs, reset_pin, recovery_pin) ==
    {c \in cs : c.reset = recovery_pin /\ c.force_recovery = reset_pin}

\* init_gpio_devices.py 43-46: the connection with this pin pair, if any.
ExistingConnection(cs, reset_pin, recovery_pin) ==
    {c \in cs : c.reset = reset_pin /\ c.force_recovery = recovery_pin}

\* init_gpio_devices.py 74: the device of this name, if any.
ExistingDevice(ds, device_name) == {d \in ds : d.name = device_name}

\* init_gpio_devices.py 41-86: the body of the loop for pin pair i, from the
\* state st of the run.
handle_pair(st, svc, i) ==
    LET reset_pin == pin_pairs[i][1]
        recovery_pin == pin_pairs[i][2]
        existing == ExistingConnection(st.conns, reset_pin, recovery_pin)
        connection_name == ConnName(reset_pin, recovery_pin)
        device_name == DevName(reset_pin, recovery_pin)
    IN  IF existing = {}
            /\ ConnectionConflicts(st.conns, connection_name, reset_pin, recovery_pin)
        THEN [st EXCEPT !.raised = TRUE]
        ELSE
        LET connection ==
                IF existing # {} THEN TheOne(existing)
                ELSE Connection(st.nextConnId, connection_name,
                                reset_pin, recovery_pin, TRUE)
            s1 == IF existing # {}
                  THEN [st EXCEPT !.skipped_connections = @ + 1]
                  ELSE [st EXCEPT !.conns = @ \cup {connection},
                                  !.nextConnId = @ + 1,
                                  !.created_connections = @ + 1]
            s2 == [s1 EXCEPT
                     !.hw = setup_pins(svc, @, connection.reset,
                                       connection.force_recovery),
                     !.touched = @ \/ setup_pins_touches(svc)]
        IN  IF ExistingDevice(s2.devs, device_name) # {} THEN s2
            ELSE IF DeviceConflicts(s2.devs, device_name)
                 THEN [s2 EXCEPT !.raised = TRUE]
                 ELSE [s2 EXCEPT
                         !.devs = @ \cup {Device(s2.nextDevId, device_name,
                                                 connection.id)},
                         !.nextDevId = @ + 1,
                         !.created_devices = @ + 1]

RECURSIVE handle_loop(_, _, _)
\* init_gpio_devices.py 41: the loop; an exception ends it where it is raised.
handle_loop(st, svc, i) ==
    IF i > Len(pin_pairs) \/ st.raised THEN st
    ELSE handle_loop(handle_pair(st, svc, i), svc, i + 1)

\* A variant of ready() without the try statement: the exception of the
\* command leaves ready().
ready_outcome_unguarded(raised) == IF raised THEN "raised" ELSE "completed"

\* apps.py 20-28: how ready() ends when call_command raised, or did not: the
\* except clause logs the exception and passes.
ready_outcome(raised) == "completed"

\* init_gpio_devices.py 8-92: the run of Command.handle on the service and
\* library state g that get_gpio_service() returned, from the command line
\* or (atStartup) from ready().
RunProvisioning(g, atStartup) ==
        /\ LET st0 == [conns |-> conns, devs |-> devs, nextConnId |-> nextConnId,
                       nextDevId |-> nextDevId, hw |-> g.hw, touched |-> g.touched,
                       created_connections |-> 0, skipped_connections |-> 0,
                       created_devices |-> 0, raised |-> FALSE]
           IN  \E st \in {handle_loop(st0, g.svc, 1)} :
               /\ gpio_service' = g.svc
               /\ hw' = st.hw
               /\ hwTouched' = st.touched
               /\ conns' = st.conns
               /\ devs' = st.devs
               /\ nextConnId' = st.nextConnId
               /\ nextDevId' = st.nextDevId
               /\ lastProv' =
                     [ran |-> TRUE, ok |-> ~st.raised, fresh |-> TRUE,
                      after_ok |-> lastProv.ran /\ lastProv.ok /\ lastProv.fresh,
                      same |-> st.conns = conns /\ st.devs = devs,
                      created_connections |-> st.created_connections,
                      created_devices |-> st.created_devices,
                      startup |-> IF atStartup THEN ready_outcome(st.raised)
                                  ELSE "none"]
        /\ UNCHANGED <<envVars, calls, userOps>>

\* init_gpio_devices.py 8-92: Command.handle, run from the command line.
handle ==
    \E sm \in SetmodeOutcomes : RunProvisioning(get_gpio_service(sm), FALSE)

\* apps.py 14-28: GpioControllerConfig.ready(), in a process that has just
\* started: no service instance yet and a GPIO library in its initial state.
\* run_init is the value of the settings test of line 20.
ready ==
    /\ \A t \in DOMAIN calls : calls[t].phase = "idle"
    /\ \E run_init \in BOOLEAN :
          IF run_init
          THEN \E sm \in (IF HAS_GPIO THEN BOOLEAN ELSE {TRUE}) :
                  RunProvisioning(NewService(HwReset, hwTouched, sm), TRUE)
          ELSE /\ gpio_service' = NoService
               /\ hw' = HwReset
               /\ lastProv' = [NoProv EXCEPT !.startup = ready_outcome(FALSE)]
               /\ UNCHANGED <<envVars, calls, hwTouched, conns, devs,
                              nextConnId, nextDevId, userOps>>

(***************************************************************************)
(* The registry under the model viewsets and the provisioning command,     *)
(* from an empty database.                                                 *)
(***************************************************************************)
\* The two ways the import can fail differ in the warning logged only: one
\* of them stands for both here.
InitProvision ==
    /\ InitEngine
    /\ gpioImport \in {"ok", "ImportError"}

NextProvision ==
    \/ CreateConnection
    \/ DeleteConnection
    \/ CreateDevice
    \/ handle

SpecProvision == InitProvision /\ [][NextProvision]_vars

(***************************************************************************)
(* The process started again and again over a database in which the API  *)
(* creates and deletes connections between two starts.                    *)
(***************************************************************************)
NextStartup ==
    \/ CreateConnection
    \/ DeleteConnection
    \/ ready

SpecStartup == InitProvision /\ [][NextStartup]_vars

(***************************************************************************)
(* The connections under every operation that writes them: create, update *)
(* and delete of the model viewset and the provisioning command, from an  *)
(* empty database, on a machine without RPi.GPIO (what the pins do is     *)
(* left to the other specifications).                                     *)
(***************************************************************************)
InitRegistry ==
    /\ InitEngine
    /\ gpioImport = "ImportError"
    /\ badPins = {}

NextRegistry ==
    \/ CreateConnection
    \/ UpdateConnection
    \/ DeleteConnection
    \/ CreateDevice
    \/ handle

SpecRegistry == InitRegistry /\ [][NextRegistry]_vars

(***************************************************************************)
(* The devices and the connections they refer to, under the model         *)
(* viewsets and the connect and disconnect views, on the same machine,    *)
(* from the database of the action gateway.                               *)
(***************************************************************************)
InitDevices ==
    /\ InitGateway
    /\ gpioImport = "ImportError"
    /\ badPins = {}

NextDevices ==
    \/ CreateConnection
    \/ DeleteConnection
    \/ CreateDevice
    \/ \E t \in Threads :
          \/ connect(t)
          \/ disconnect(t)
          \/ Return(t)

SpecDevices == InitDevices /\ [][NextDevices]_vars

(***************************************************************************)
(* Two threads of one process that use the service at the same time, on    *)
(* one pin pair. Here get_gpio_service() is the two steps it is in the     *)
(* code: the test of line 270, then the construction and the assignment of *)
(* line 271. No lock is taken anywhere in services.py.                     *)
(***************************************************************************)
RaceThreads == {"t1", "t2"}

\* services.py 269-270: `if _gpio_service is None`. The caller either has
\* the instance (line 272) or goes on to construct one.
get_gpio_service_test(t) ==
    /\ calls[t].phase = "idle"
    /\ calls' = [calls EXCEPT ![t] =
          IF gpio_service.exists
          THEN [IdleFrame EXCEPT !.handler = "direct", !.phase = "acquired",
                                 !.svc = gpio_service]
          ELSE [IdleFrame EXCEPT !.handler = "direct", !.phase = "constructing"]]
    /\ UNCHANGED <<envVars, gpio_service, hw, hwTouched, registryVars>>

\* services.py 271-272: `_gpio_service = GPIOService()`, by a caller that saw
\* None at line 270, whatever the variable holds by now; then the return.
get_gpio_service_construct(t) ==
    /\ calls[t].phase = "constructing"
    /\ \E sm \in (IF HAS_GPIO THEN BOOLEAN ELSE {TRUE}) :
          LET g == NewService(hw, hwTouched, sm)
              instance == [g.svc EXCEPT !.id = gpio_service.id + 1]
          IN  /\ gpio_service' = instance
              /\ hw' = g.hw
              /\ hwTouched' = g.touched
              /\ calls' = [calls EXCEPT ![t] =
                    [@ EXCEPT !.phase = "acquired", !.svc = instance]]
    /\ UNCHANGED <<envVars, registryVars>>

\* The caller invokes a method on the instance it holds: a pulse of the reset
\* pin (views.py 73) or the force-recovery sequence (views.py 109-113) of the
\* connection (26, 19).
RaceCall(t) ==
    /\ calls[t].phase = "acquired"
    /\ \E c \in {"pulse_pin", "sequence_ab"} :
          LET f == calls[t]
              args == IF c = "pulse_pin"
                      THEN [NoArgs EXCEPT !.a = 26, !.pulse = DefaultPulse]
                      ELSE [NoArgs EXCEPT !.a = 19, !.b = 26,
                                          !.hold = DefaultHold,
                                          !.pulse = DefaultPulse]
              prog == IF c = "pulse_pin" THEN pulse_pin(26, DefaultPulse)
                      ELSE force_recovery_sequence(19, 26, DefaultHold)
          IN  calls' = [calls EXCEPT ![t] = EnterEngine(f, f.svc, c, args, prog)]
    /\ UNCHANGED <<envVars, gpio_service, hw, hwTouched, registryVars>>

InitRace ==
    /\ gpioImport \in ImportOutcomes
    /\ badPins = {}
    /\ gpio_service = NoService
    /\ hw = HwReset
    /\ hwTouched = FALSE
    /\ calls = [t \in RaceThreads |-> IdleFrame]
    /\ lastProv = NoProv
    /\ userOps = 0
    /\ conns = {}
    /\ devs = {}
    /\ nextConnId = 1
    /\ nextDevId = 1

NextRace ==
    \E t \in RaceThreads :
        \/ get_gpio_service_test(t)
        \/ get_gpio_service_construct(t)
        \/ RaceCall(t)
        \/ Step(t)
        \/ Return(t)

SpecRace == InitRace /\ [][NextRace]_vars

(***************************************************************************)
(* A caller that sets up a pin pair and then toggles the first pin:        *)
(* setup_pins(p, q), then set_pin_state(p, False) and set_pin_state(p,     *)
(* True), the pair of calls n times over, stopping at a call that returns  *)
(* False.                                                                  *)
(***************************************************************************)
MaxRoundTrips == 2

RECURSIVE RoundTrips(_, _)
\* The GPIO.output calls of n pairs of set_pin_state calls on pin.
RoundTrips(pin, n) ==
    IF n = 0 THEN <<>>
    ELSE set_pin_state(pin, FALSE) \o set_pin_state(pin, TRUE)
         \o RoundTrips(pin, n - 1)

Call_round_trip(t) ==
    \E p \in EnginePins, q \in EnginePins, n \in 1..MaxRoundTrips,
       sm \in SetmodeOutcomes :
        /\ calls[t].phase = "idle"
        /\ LET g == get_gpio_service(sm)
           IN  /\ gpio_service' = g.svc
               /\ hw' = setup_pins(g.svc, g.hw, p, q)
               /\ hwTouched' = (g.touched \/ setup_pins_touches(g.svc))
               /\ calls' = [calls EXCEPT ![t] =
                      EnterEngine([IdleFrame EXCEPT !.handler = "direct"],
                                  g.svc, "round_trip",
                                  [NoArgs EXCEPT !.a = p, !.b = q],
                                  RoundTrips(p, n))]
        /\ UNCHANGED <<envVars, registryVars>>

NextRoundTrip ==
    \E t \in Threads :
        \/ Call_round_trip(t)
        \/ cleanup_gpio(t)
        \/ Step(t)
        \/ Return(t)

SpecRoundTrip == InitEngine /\ [][NextRoundTrip]_vars

(***************************************************************************)
(* sequence_ba(a, b, hold, pulse) and sequence_ab(b, a, hold, pulse) run   *)
(* side by side on the same service, statement by statement, under the     *)
(* same pattern of write failures: thread t1 runs the first and thread t2  *)
(* the second.                                                             *)
(***************************************************************************)
MirrorCall ==
    \E a \in EnginePins, b \in EnginePins, h \in HoldChoices,
       d \in PulseChoices, sm \in SetmodeOutcomes :
        /\ \A t \in RaceThreads : calls[t].phase = "idle"
        /\ LET g == get_gpio_service(sm)
               base == [IdleFrame EXCEPT !.handler = "direct"]
           IN  /\ gpio_service' = g.svc
               /\ hw' = g.hw
               /\ hwTouched' = g.touched
               /\ calls' = [calls EXCEPT
                    !["t1"] = EnterEngine(base, g.svc, "sequence_ba",
                                [NoArgs EXCEPT !.a = a, !.b = b, !.hold = h,
                                               !.pulse = d],
                                sequence_ba(a, b, h, d)),
                    !["t2"] = EnterEngine(base, g.svc, "sequence_ab",
                                [NoArgs EXCEPT !.a = b, !.b = a, !.hold = h,
                                               !.pulse = d],
                                sequence_ab(b, a, h, d))]
        /\ UNCHANGED <<envVars, registryVars>>

\* The next statement of each of the two runs: a sleep completes; a write
\* returns in both runs or raises in both.
MirrorStep ==
    /\ \A t \in RaceThreads : calls[t].phase = "running"
    /\ \E ok \in BOOLEAN :
          LET after(f) ==
                  IF f.prog[f.pc].k = "sleep" \/ ok THEN OnStepDone(f)
                  ELSE OnWriteFailure(f)
              i1 == calls["t1"].prog[calls["t1"].pc]
              i2 == calls["t2"].prog[calls["t2"].pc]
              w1 == IF i1.k = "write" /\ ok THEN gpio_output(hw, i1.pin, i1.lvl)
                    ELSE hw
              w2 == IF i2.k = "write" /\ ok THEN gpio_output(w1, i2.pin, i2.lvl)
                    ELSE w1
          IN  /\ calls' = [t \in RaceThreads |-> after(calls[t])]
              /\ hw' = w2
              /\ hwTouched' = (hwTouched \/ i1.k = "write" \/ i2.k = "write")
    /\ UNCHANGED <<envVars, gpio_service, registryVars>>

\* Both callers have their result.
MirrorReturn ==
    /\ \A t \in RaceThreads : calls[t].phase = "returned"
    /\ calls' = [t \in RaceThreads |-> IdleFrame]
    /\ UNCHANGED <<envVars, gpio_service, hw, hwTouched, registryVars>>

NextMirror ==
    \/ MirrorCall
    \/ MirrorStep
    \/ MirrorReturn

SpecMirror == InitRace /\ [][NextMirror]_vars

(***************************************************************************)
(* Two threads that call any of the five pin methods on pins 19 and 26,    *)
(* scheduled fairly: a thread that is inside a method gets to run its next *)
(* statement (a sleep ends; GPIO.output returns or raises).                *)
(***************************************************************************)
RaceMethods ==
    {"pulse_pin", "hold_pin_low", "sequence_ab", "sequence_ba", "set_pin_state"}

\* The arguments a caller of the fair race passes to method c.
RaceArgs(c) ==
    IF c = "pulse_pin" THEN [NoArgs EXCEPT !.a = 26, !.pulse = DefaultPulse]
    ELSE IF c = "hold_pin_low" THEN [NoArgs EXCEPT !.a = 19, !.hold = DefaultHold]
    ELSE IF c = "set_pin_state" THEN [NoArgs EXCEPT !.a = 26, !.state = TRUE]
    ELSE [NoArgs EXCEPT !.a = 19, !.b = 26, !.hold = DefaultHold,
                        !.pulse = DefaultPulse]

\* The statements of method c on these arguments.
RaceProg(c) ==
    IF c = "pulse_pin" THEN pulse_pin(26, DefaultPulse)
    ELSE IF c = "hold_pin_low" THEN hold_pin_low(19, DefaultHold)
    ELSE IF c = "set_pin_state" THEN set_pin_state(26, TRUE)
    ELSE IF c = "sequence_ab" THEN sequence_ab(19, 26, DefaultHold, DefaultPulse)
    ELSE sequence_ba(19, 26, DefaultHold, DefaultPulse)

RaceCallAny(t) ==
    /\ calls[t].phase = "acquired"
    /\ \E c \in RaceMethods :
          calls' = [calls EXCEPT ![t] =
              EnterEngine(calls[t], calls[t].svc, c, RaceArgs(c), RaceProg(c))]
    /\ UNCHANGED <<envVars, gpio_service, hw, hwTouched, registryVars>>

NextRaceFair ==
    \E t \in RaceThreads :
        \/ get_gpio_service_test(t)
        \/ get_gpio_service_construct(t)
        \/ RaceCallAny(t)
        \/ Step(t)
        \/ Return(t)

SpecRaceFair ==
    /\ InitRace
    /\ [][NextRaceFair]_vars
    /\ \A t \in RaceThreads : WF_vars(Step(t))

(***************************************************************************)
(* Connections created and updated through the API, the service shut down  *)
(* and created again, and reset requests in between, on a board whose      *)
(* RPi.GPIO imports and whose GPIO.setup calls all succeed.                *)
(***************************************************************************)
InitConfigured ==
    /\ InitEngine
    /\ gpioImport = "ok"
    /\ badPins = {}

NextConfigured ==
    \/ CreateConnection
    \/ UpdateConnection
    \/ \E t \in Threads :
          \/ cleanup_gpio(t)
          \/ reset(t)
          \/ Step(t)
          \/ Return(t)

SpecConfigured == InitConfigured /\ [][NextConfigured]_vars

(***************************************************************************)
(* Claims.  The properties checked of the model, each with a state in      *)
(* which its case occurs.                                                  *)
(***************************************************************************)
OkW(pin, lvl) == [k |-> "write", pin |-> pin, lvl |-> lvl, d |-> 0, ok |-> TRUE]

Slept(d) == [k |-> "sleep", pin |-> 0, lvl |-> "-", d |-> d, ok |-> TRUE]

IsPrefix(xs, ys) == Len(xs) <= Len(ys) /\ xs = SubSeq(ys, 1, Len(xs))

Finished(f) == f.phase \in {"returned", "responded"}

OkWrites(trace) == {i \in 1..Len(trace) : trace[i].k = "write" /\ trace[i].ok}

\* The pins whose latest successful write in the trace drove them LOW.
HeldLow(trace) ==
    {trace[i].pin : i \in {j \in OkWrites(trace) :
        /\ trace[j].lvl = "LOW"
        /\ \A m \in OkWrites(trace) : m > j => trace[m].pin # trace[j].pin}}

\* The events of a complete sequence_ab(a, b, hold, pulse), settle delay 0.5 s.
ExpectedAB(a, b, hold, pulse) ==
    << OkW(a, "LOW"), Slept(hold), OkW(b, "LOW"), Slept(pulse),
       OkW(b, "HIGH"), Slept(50), OkW(a, "HIGH") >>

\* C1: on an initialized hardware backend, a sequence_ab(a, b, hold, pulse)
\* whose writes all succeed issues a=LOW, sleep hold, b=LOW, sleep pulse,
\* b=HIGH, sleep 0.5 s, a=HIGH in exactly this order (at every moment what it
\* has done is a prefix of that), and it returns True when it has returned.
C1_SequenceAbOrder ==
    \A t \in Threads :
        LET f == calls[t]
            e == ExpectedAB(f.args.a, f.args.b, f.args.hold, f.args.pulse)
        IN  (f.op = "sequence_ab" /\ f.svcInit = "ok" /\ ~f.failed)
            => /\ IsPrefix(f.trace, e)
               /\ Finished(f) => (f.trace = e /\ f.result = "True")
               /\ f.result = "True" => Finished(f)

C1_Witness ==
    \E t \in Threads :
        /\ calls[t].op = "sequence_ab"
        /\ calls[t].phase = "returned"
        /\ calls[t].result = "True"
        /\ calls[t].args.a # calls[t].args.b
        /\ calls[t].args.hold # calls[t].args.pulse
        /\ Cardinality(OkWrites(calls[t].trace)) = 4

\* C2: a pin write that fails inside pulse_pin, hold_pin_low, sequence_ab or
\* sequence_ba is the last thing the call does: it has returned False, nothing
\* follows the failed write in its trace, and every pin the call holds LOW at
\* that point is still LOW (no rollback). In sequence_ab(a, b), when the write
\* b=LOW fails, the call has written a only LOW and a is LOW.
C2_FailureAbortsNoRollback ==
    \A t \in Threads :
        LET f == calls[t]
        IN  (f.op \in {"pulse_pin", "hold_pin_low", "sequence_ab", "sequence_ba"}
                /\ \E i \in 1..Len(f.trace) : ~f.trace[i].ok)
            => /\ f.phase = "returned"
               /\ f.result = "False"
               /\ \A i \in 1..Len(f.trace) : ~f.trace[i].ok => i = Len(f.trace)
               /\ \A p \in HeldLow(f.trace) : hw.level[p] = "LOW"
               /\ (f.op = "sequence_ab" /\ Len(f.trace) = 3)
                    => /\ hw.level[f.args.a] = "LOW"
                       /\ \A i \in OkWrites(f.trace) :
                            ~(f.trace[i].pin = f.args.a /\ f.trace[i].lvl = "HIGH")

C2_Witness ==
    \E t \in Threads :
        /\ calls[t].op = "sequence_ab"
        /\ calls[t].args.a # calls[t].args.b
        /\ Len(calls[t].trace) = 3
        /\ ~calls[t].trace[3].ok
        /\ calls[t].result = "False"
        /\ hw.level[calls[t].args.a] = "LOW"

\* C3: on a hardware backend, pulse_pin(p, d) whose writes succeed performs
\* exactly two writes, p=LOW then p=HIGH, with one sleep of d between them and
\* no write to another pin; and a returned pulse_pin has returned True exactly
\* when two writes succeeded.
C3_PulseTwoWrites ==
    \A t \in Threads :
        LET f == calls[t]
            p == f.args.a
        IN  (f.op = "pulse_pin" /\ HAS_GPIO)
            => /\ \A i \in 1..Len(f.trace) :
                    f.trace[i].k = "write" => f.trace[i].pin = p
               /\ (Finished(f) /\ f.svcInit = "ok" /\ ~f.failed)
                    => f.trace = << OkW(p, "LOW"), Slept(f.args.pulse), OkW(p, "HIGH") >>
               /\ Finished(f)
                    => (f.result = "True" <=> Cardinality(OkWrites(f.trace)) = 2)
               /\ Finished(f) => f.result \in {"True", "False"}

C3_Witness ==
    \E t \in Threads :
        /\ calls[t].op = "pulse_pin"
        /\ calls[t].phase = "returned"
        /\ calls[t].result = "True"
        /\ Len(calls[t].trace) = 3

\* C4: in mock mode (the RPi.GPIO import failed) every pin operation returns
\* True at once, for every pin and duration, and no function of the GPIO
\* library has been called, by it, by setup_pins or by cleanup.
C4_MockModeNoHardware ==
    ~HAS_GPIO
    => /\ ~hwTouched
       /\ hw = HwReset
       /\ \A t \in Threads :
            calls[t].op # "none"
            => /\ calls[t].phase = "returned"
               /\ calls[t].result = "True"
               /\ calls[t].trace = << >>

C4_Witness ==
    /\ ~HAS_GPIO
    /\ gpio_service.exists
    /\ \E t \in Threads :
        /\ calls[t].op = "sequence_ba"
        /\ calls[t].result = "True"

\* C5: whenever backend initialization fails (import failed, or
\* GPIO.setmode raised), the instance is in mock mode: every pin operation
\* called on it returns success.
C5_InitFailureIsMock ==
    \A t \in Threads :
        (calls[t].phase = "returned"
            /\ calls[t].svcInit \in {"no_gpio", "setmode_raised"})
        => calls[t].result = "True"

C5_Witness ==
    \E t \in Threads :
        /\ calls[t].phase = "returned"
        /\ calls[t].svcInit = "setmode_raised"

\* The events of a trace with a failed last write counted as attempted.
Attempted(trace) == [i \in 1..Len(trace) |-> [trace[i] EXCEPT !.ok = TRUE]]

\* C6: the force-recovery action on connection c runs
\* sequence_ab(c.force_recovery, c.reset, hold_time, 0.5) with the requested
\* hold_time (2.0 s when the body has none): what it does is at every moment a
\* prefix of force_recovery=LOW, sleep, reset=LOW, sleep 0.5 s, reset=HIGH,
\* sleep 0.5 s, force_recovery=HIGH, and all of it when it succeeds on the
\* hardware. The reset action writes c.reset only, LOW then HIGH.
C6_ForceRecoveryLeadsWithRecoveryPin ==
    \A t \in Threads :
        LET f == calls[t]
            c == TheOne(ConnById(f.req.conn))
            h == IF f.req.hold_time = -1 THEN 200 ELSE f.req.hold_time
            d == IF f.req.duration = -1 THEN 50 ELSE f.req.duration
        IN  /\ (f.handler = "force_recovery" /\ f.op # "none")
                => /\ f.args.a = c.force_recovery
                   /\ f.args.b = c.reset
                   /\ f.args.hold = h
                   /\ IsPrefix(Attempted(f.trace),
                               ExpectedAB(c.force_recovery, c.reset, h, 50))
                   /\ (f.resp.success = "true" /\ f.svcInit = "ok")
                        => f.trace = ExpectedAB(c.force_recovery, c.reset, h, 50)
            /\ (f.handler = "reset" /\ f.op # "none")
                => /\ IsPrefix(Attempted(f.trace),
                               << OkW(c.reset, "LOW"), Slept(d), OkW(c.reset, "HIGH") >>)
                   /\ (f.resp.success = "true" /\ f.svcInit = "ok")
                        => Len(f.trace) = 3

C6_Witness ==
    \E t \in Threads :
        /\ calls[t].handler = "force_recovery"
        /\ calls[t].req.conn = 1
        /\ calls[t].req.hold_time = 1000
        /\ calls[t].resp.success = "true"
        /\ Len(calls[t].trace) = 7
        /\ calls[t].trace[1].pin = 19
        /\ calls[t].trace[3].pin = 26

\* C7: a request that fails validation is answered 400 before the engine is
\* entered, so it writes no pin: a reset with duration outside [0.1, 5.0], a
\* force-recovery with hold_time outside [0.5, 10.0], a set-pin whose pin is
\* not reset or force_recovery or whose state is missing or not a boolean. The
\* boundary values 0.1, 5.0, 0.5 and 10.0 are accepted and reach the engine.
C7_InvalidRequestTouchesNoPin ==
    \A t \in Threads :
        LET f == calls[t]
            rejected == /\ f.phase = "responded"
                        /\ f.resp.status = 400
                        /\ f.op = "none"
                        /\ f.trace = << >>
        IN  /\ (f.handler = "reset" /\ f.found /\ f.req.duration # -1
                    /\ (f.req.duration < 10 \/ f.req.duration > 500))
                => rejected
            /\ (f.handler = "force_recovery" /\ f.found /\ f.req.hold_time # -1
                    /\ (f.req.hold_time < 50 \/ f.req.hold_time > 1000))
                => rejected
            /\ (f.handler = "set_pin" /\ f.found
                    /\ (f.req.pin \notin {"reset", "force_recovery"}
                            \/ f.req.state \notin {"true", "false"}))
                => rejected
            /\ (f.handler = "reset" /\ f.found /\ f.req.duration \in {10, 500})
                => (f.op = "pulse_pin" /\ f.args.pulse = f.req.duration
                        /\ f.resp.status # 400)
            /\ (f.handler = "force_recovery" /\ f.found
                    /\ f.req.hold_time \in {50, 1000})
                => (f.op = "force_recovery_sequence"
                        /\ f.args.hold = f.req.hold_time /\ f.resp.status # 400)

C7_Witness ==
    \E t \in Threads :
        /\ calls[t].handler = "reset"
        /\ calls[t].found
        /\ calls[t].req.duration = 501
        /\ calls[t].resp.status = 400
        /\ gpio_service.exists
        /\ HAS_GPIO

\* C8: for reset, force-recovery and set-pin on an existing connection with
\* valid input, the response is 200 with success=true exactly when the engine
\* method returned True and 500 with success=false exactly when it returned
\* False; a write that raised ends in such a 500 response, not in an error
\* of the view.
C8_StatusFollowsEngineResult ==
    \A t \in Threads :
        LET f == calls[t]
        IN  (f.handler \in {"reset", "force_recovery", "set_pin"} /\ f.op # "none")
            => /\ f.phase \in {"running", "responded"}
               /\ f.phase = "running" => (f.resp = NoResp /\ f.result = "none")
               /\ f.phase = "responded"
                    => \/ /\ f.result = "True"
                          /\ f.resp.status = 200
                          /\ f.resp.success = "true"
                       \/ /\ f.result = "False"
                          /\ f.resp.status = 500
                          /\ f.resp.success = "false"
               /\ f.failed => (f.phase = "responded" /\ f.resp.status = 500)

C8_Witness ==
    \E t \in Threads :
        /\ calls[t].handler = "set_pin"
        /\ calls[t].failed
        /\ calls[t].resp.status = 500
        /\ calls[t].resp.success = "false"

\* C9: every failure response the views build (a pin operation that failed,
\* a set-pin with an invalid pin name or state, a connect or disconnect
\* error) is an envelope with success=false and a message.
C9_FailureEnvelope ==
    \A t \in Threads :
        LET f == calls[t]
        IN  (f.phase = "responded" /\ f.found /\ f.resp.status >= 400
                /\ f.handler \in {"reset", "force_recovery", "set_pin",
                                  "connect", "disconnect"}
                /\ ~(f.handler = "reset" /\ f.op = "none")
                /\ ~(f.handler = "force_recovery" /\ f.op = "none"))
            => /\ f.resp.success = "false"
               /\ {"success", "message"} \subseteq f.resp.keys

C9_Witness ==
    \E t \in Threads :
        /\ calls[t].handler = "set_pin"
        /\ calls[t].found
        /\ calls[t].req.pin = "gpio5"
        /\ calls[t].resp.status = 400

FixedPairs == { <<26, 19>>, <<13, 6>>, <<5, 11>>, <<9, 10>>,
                <<22, 27>>, <<17, 4>>, <<3, 2>> }

\* C10: a provisioning run that directly follows a successful one raises no
\* error, creates no connection and no device, and leaves the registry as it
\* was, with exactly one connection for each of the seven fixed pin pairs.
C10_ProvisioningIdempotent ==
    (lastProv.ran /\ lastProv.after_ok)
    => /\ lastProv.ok
       /\ lastProv.created_connections = 0
       /\ lastProv.created_devices = 0
       /\ lastProv.same
       /\ lastProv.fresh
            => \A pr \in FixedPairs :
                  Cardinality({c \in conns : c.reset = pr[1]
                                   /\ c.force_recovery = pr[2]}) = 1

C10_Witness ==
    /\ lastProv.ran
    /\ lastProv.after_ok
    /\ lastProv.fresh
    /\ lastProv.ok
    /\ Cardinality(conns) = 7
    /\ Cardinality(devs) = 7
    /\ \E c \in conns : c.name = <<"bench", 0, 0>> /\ c.reset = 26

\* C11: whatever happens while the provisioning command runs from ready() (a
\* uniqueness violation that ends the loop, a GPIO.setup that raises inside
\* setup_pins), ready() completes: no exception leaves it.
C11_StartupSurvivesProvisioningFailure ==
    lastProv.startup # "raised"

\* A start of the process whose provisioning run was ended by a uniqueness
\* violation, on a board where GPIO.setup raises for one pin as well.
C11_Witness ==
    /\ lastProv.startup = "completed"
    /\ lastProv.ran
    /\ ~lastProv.ok
    /\ badPins # {}
    /\ gpio_service.initialized

\* The instances that the callers of get_gpio_service() hold at this moment.
HeldInstances ==
    {calls[t].svc : t \in {u \in DOMAIN calls : calls[u].svc.exists}}

\* C12: between two shutdowns at most one instance is ever constructed (so the
\* hardware is initialized at most once), and every caller of
\* get_gpio_service() holds that one instance: the one the module variable
\* holds. Stated for callers that may run at the same time.
C12_SingletonUnderConcurrency ==
    /\ gpio_service.id <= 1
    /\ HeldInstances \subseteq {gpio_service}

\* Two callers are inside get_gpio_service() at once: both have passed the
\* test of line 270 before either has assigned the variable.
C12_Witness ==
    /\ calls["t1"].phase = "constructing"
    /\ calls["t2"].phase = "constructing"
    /\ ~gpio_service.exists

\* C13: a cleanup_gpio() call, in whatever lifecycle state, returns None (no
\* exception leaves it) and leaves no instance behind; it calls into the GPIO
\* library only for an initialized instance of a hardware backend, which it
\* then drops, so one instance is released at most once; and a call that
\* finds no instance (before any initialization, or right after another
\* cleanup_gpio()) changes nothing: the state after it is the state before it.
C13_ShutdownIdempotent ==
    [][\A t \in Threads :
         (calls[t].phase = "idle" /\ calls'[t].handler = "cleanup_gpio") =>
            /\ calls'[t].result = "None"
            /\ ~gpio_service'.exists
            /\ (~gpio_service.exists =>
                   /\ UNCHANGED <<gpio_service, hw, hwTouched, registryVars>>
                   /\ ~calls'[t].svc.exists)
            /\ (hwTouched' # hwTouched \/ hw' # hw =>
                   HAS_GPIO /\ gpio_service.initialized)]_vars

\* A cleanup_gpio() call that found no instance, in a process in which an
\* earlier call has released the hardware: the later of two calls in a row.
C13_Witness ==
    \E t \in Threads :
        /\ calls[t].handler = "cleanup_gpio"
        /\ calls[t].result = "None"
        /\ ~calls[t].svc.exists
        /\ ~gpio_service.exists
        /\ hwTouched
        /\ hw = HwReset

RECURSIVE SleptTotal(_)
\* The time a call has slept so far, in hundredths of a second.
SleptTotal(trace) ==
    IF trace = <<>> THEN 0
    ELSE SleptTotal(SubSeq(trace, 1, Len(trace) - 1))
         + (IF trace[Len(trace)].k = "sleep" THEN trace[Len(trace)].d ELSE 0)

\* The force-recovery requests with hold_time 2.0 s on connection 1, which
\* has reset pin 26 and force-recovery pin 19, that have been answered
\* success=true.
ForceRecovery2sDone(f) ==
    /\ f.handler = "force_recovery"
    /\ f.req.conn = 1
    /\ f.args.a = 19 /\ f.args.b = 26 /\ f.args.hold = 200
    /\ f.phase = "responded"
    /\ f.resp.success = "true"

\* C14 as stated: in mock mode the force-recovery action with hold_time 2.0 s
\* on connection (26, 19) answers success=true only after its three sleeps
\* (2.0 s, 0.5 s, 0.5 s; at least 3.0 s in all).
C14_MockForceRecoverySleeps ==
    \A t \in Threads :
        (ForceRecovery2sDone(calls[t]) /\ calls[t].svcInit = "no_gpio")
            => SleptTotal(calls[t].trace) >= 300

\* C14 as the code has it: in mock mode the action answers success=true at
\* once, having run no statement of the sequence and slept not at all; it is
\* on an initialized hardware backend that the answer comes after the three
\* sleeps of 2.0 s, 0.5 s and 0.5 s (3.0 s in all).
C14_MockForceRecoveryReturnsAtOnce ==
    \A t \in Threads :
        LET f == calls[t]
        IN  ForceRecovery2sDone(f) =>
               /\ f.svcInit \in {"no_gpio", "ok"}
               /\ f.svcInit = "no_gpio" =>
                     (f.trace = <<>> /\ SleptTotal(f.trace) = 0)
               /\ f.svcInit = "ok" =>
                     /\ SleptTotal(f.trace) = 300
                     /\ [i \in 1..3 |-> f.trace[2 * i].d] = <<200, 50, 50>>

\* A force-recovery with hold_time 2.0 s on connection 1 answered
\* success=true in mock mode.
C14_Witness ==
    \E t \in Threads :
        /\ ForceRecovery2sDone(calls[t])
        /\ calls[t].svcInit = "no_gpio"
        /\ ~HAS_GPIO
        /\ calls[t].resp.status = 200

\* C15: on an initialized hardware backend, once setup_pins has configured
\* pin p as an output at HIGH, set_pin_state(p, LOW) followed by
\* set_pin_state(p, HIGH) leaves p at HIGH, however many times the pair is
\* repeated: as long as the calls return True, p is LOW after an odd number
\* of them and HIGH, its level after the setup, after an even number.
C15_RoundTripRestoresHigh ==
    \A t \in Threads :
        LET f == calls[t]
            p == f.args.a
        IN  (f.op = "round_trip" /\ f.svcInit = "ok" /\ p \notin badPins
                /\ ~f.failed)
            => /\ p \in hw.out
               /\ Len(f.trace) % 2 = 0 => hw.level[p] = "HIGH"
               /\ Len(f.trace) % 2 = 1 => hw.level[p] = "LOW"
               /\ \A i \in 1..Len(f.trace) :
                     f.trace[i] = OkW(p, IF i % 2 = 1 THEN "LOW" ELSE "HIGH")

\* Two round trips on pin 26 have been completed, and the pin is HIGH.
C15_Witness ==
    \E t \in Threads :
        /\ calls[t].op = "round_trip"
        /\ calls[t].args.a = 26
        /\ calls[t].result = "True"
        /\ Len(calls[t].trace) = 4
        /\ calls[t].trace[3] = OkW(26, "LOW")
        /\ 26 \in hw.out
        /\ hw.level[26] = "HIGH"

ReferentialIntegrity ==
    \A d \in devs : d.connected_to = 0 \/ \E c \in conns : c.id = d.connected_to

\* C17: after every step the connection reference of every device is null or
\* refers to an existing connection; and the delete of a connection removes
\* no device and changes none but the devices attached to it, whose reference
\* it sets to null.
C17_ReferentialIntegrity ==
    [][/\ ReferentialIntegrity'
       /\ \A c \in conns :
            (conns' = conns \ {c}) =>
               /\ {d.id : d \in devs'} = {d.id : d \in devs}
               /\ Cardinality(devs') = Cardinality(devs)
               /\ \A d \in devs :
                     IF d.connected_to = c.id
                     THEN [d EXCEPT !.connected_to = 0] \in devs'
                     ELSE d \in devs']_vars

\* Device 2 was attached to connection 1 by the connect view, and the
\* connection has been deleted since: the device is still there, attached to
\* nothing.
C17_Witness ==
    \E t \in Threads :
        /\ calls[t].handler = "connect"
        /\ calls[t].req.dev = 2 /\ calls[t].req.conn = 1
        /\ calls[t].resp.status = 200
        /\ \A c \in conns : c.id # 1
        /\ \E d \in devs : d.id = 2 /\ d.connected_to = 0
        /\ Cardinality(devs) >= 2

\* C18: nothing makes a call wait for another one: a call that is in the
\* middle of its method can always run its next statement, whatever the other
\* caller is doing on the same pins. (What follows from it, two calls whose
\* writes interleave on one pin, is the state of C18_Witness.)
C18_NoMutualExclusion ==
    \A t \in RaceThreads :
        calls[t].phase = "running" => ENABLED Step(t)

\* Thread t1 is between its LOW write and its HIGH write on pin 26, and the
\* pin is HIGH already: thread t2, which drove it LOW after t1 did, has
\* written it HIGH.
C18_Witness ==
    LET f == calls["t1"]
        g == calls["t2"]
    IN  /\ f.phase = "running"
        /\ f.op = "pulse_pin"
        /\ f.trace = << OkW(26, "LOW"), Slept(50) >>
        /\ g.svcInit = "ok"
        /\ Len(g.trace) >= 3
        /\ g.trace[Len(g.trace)] = OkW(26, "HIGH")
        /\ hw.level[26] = "HIGH"

\* C19: after the provisioning run of a process start, on an initialized
\* hardware backend none of whose GPIO.setup calls raises, whatever the
\* registry held before, each of the seven fixed pin pairs is the pin pair
\* of a connection and both its pins are outputs at HIGH.
C19_StartupProvisionsAllPairs ==
    (/\ lastProv.startup = "completed"
     /\ lastProv.ran
     /\ lastProv.fresh
     /\ gpioImport = "ok"
     /\ gpio_service.initialized
     /\ badPins = {})
        => \A pair \in FixedPairs :
              /\ \E c \in conns :
                    c.reset = pair[1] /\ c.force_recovery = pair[2]
              /\ {pair[1], pair[2]} \subseteq hw.out
              /\ hw.level[pair[1]] = "HIGH"
              /\ hw.level[pair[2]] = "HIGH"

\* A start over a registry that already held a connection of its own: the
\* run adopted or skipped nothing it should not, and the seven pairs are
\* there next to it with their pins set up.
C19_Witness ==
    /\ lastProv.startup = "completed"
    /\ lastProv.ok
    /\ lastProv.fresh
    /\ gpio_service.initialized
    /\ badPins = {}
    /\ Cardinality(conns) = 8
    /\ \A pair \in FixedPairs :
          /\ \E c \in conns : c.reset = pair[1] /\ c.force_recovery = pair[2]
          /\ {pair[1], pair[2]} \subseteq hw.out

\* C20: a step of a reset, force-recovery or set-pin request (its validation,
\* each statement of the pin operation it runs, its response), whether the
\* request succeeds or fails, leaves every connection and every device as it
\* was.
C20_PinActionsLeaveRegistry ==
    [][\A t \in Threads :
         (/\ calls'[t].handler \in {"reset", "force_recovery", "set_pin"}
          /\ calls'[t] # calls[t])
            => /\ conns' = conns
               /\ devs' = devs
               /\ nextConnId' = nextConnId
               /\ nextDevId' = nextDevId]_vars

\* A failed and answered reset of connection 2, which is disabled, next to
\* the registry of the start: both connections and both devices are there.
C20_Witness ==
    \E t \in Threads :
        /\ calls[t].handler = "reset"
        /\ calls[t].req.conn = 2
        /\ calls[t].failed
        /\ calls[t].resp.status = 500
        /\ \E c \in conns : c.id = 2 /\ ~c.is_enabled /\ c.reset = 13
        /\ Cardinality(conns) = 2
        /\ Cardinality(devs) = 2

\* C21: a set-pin request that reaches the engine runs one statement, a write
\* of the pin named in the request (the reset pin or the force-recovery pin
\* of the addressed connection) at the requested level (HIGH for true, LOW
\* for false); no step of the request changes the level of any other pin,
\* and the write, when it returns, leaves the pin at that level.
C21_SetPinWritesOnePin ==
    [][\A t \in Threads :
         (calls'[t].handler = "set_pin" /\ calls'[t].op # "none"
            /\ calls'[t] # calls[t])
         => LET f == calls'[t]
                c == CHOOSE x \in conns : x.id = f.req.conn
                target == IF f.req.pin = "reset" THEN c.reset
                          ELSE c.force_recovery
                lvl == IF f.req.state = "true" THEN "HIGH" ELSE "LOW"
            IN  /\ f.req.pin \in {"reset", "force_recovery"}
                /\ f.req.state \in {"true", "false"}
                /\ Len(f.trace) <= 1
                /\ \A i \in 1..Len(f.trace) :
                      /\ f.trace[i].k = "write"
                      /\ f.trace[i].pin = target
                      /\ f.trace[i].lvl = lvl
                /\ (f.result = "True" /\ f.svcInit = "ok") =>
                      /\ f.trace = << OkW(target, lvl) >>
                      /\ hw'.level[target] = lvl
                /\ \A p \in DOMAIN hw.level :
                      p # target => hw'.level[p] = hw.level[p]]_vars

\* A set-pin of the force-recovery pin of connection 1 to LOW has succeeded
\* on the hardware: pin 19 is LOW and pin 26, the reset pin, is not.
C21_Witness ==
    \E t \in Threads :
        /\ calls[t].handler = "set_pin"
        /\ calls[t].req.conn = 1
        /\ calls[t].req.pin = "force_recovery"
        /\ calls[t].req.state = "false"
        /\ calls[t].resp.success = "true"
        /\ calls[t].trace = << OkW(19, "LOW") >>
        /\ hw.level[19] = "LOW"
        /\ hw.level[26] # "LOW"

\* C22: for all pins a and b, all durations and every pattern of write
\* failures, sequence_ba(a, b, hold, pulse) is at every moment where
\* sequence_ab(b, a, hold, pulse) is: the same writes and sleeps so far, in
\* the same order, with the same outcomes, and the same result on return.
C22_SequenceBaMirrorsAb ==
    LET ba == calls["t1"]
        ab == calls["t2"]
    IN  (ba.op = "sequence_ba" /\ ab.op = "sequence_ab"
            /\ ab.args.a = ba.args.b /\ ab.args.b = ba.args.a)
        => /\ ba.trace = ab.trace
           /\ ba.result = ab.result
           /\ ba.phase = ab.phase
           /\ ba.failed = ab.failed

\* sequence_ba(19, 26, ...) and sequence_ab(26, 19, ...) have both returned
\* False at their third write, which raised: the fifth event of each run.
C22_Witness ==
    /\ calls["t1"].op = "sequence_ba"
    /\ calls["t1"].args.a = 19 /\ calls["t1"].args.b = 26
    /\ calls["t2"].op = "sequence_ab"
    /\ calls["t1"].result = "False"
    /\ calls["t2"].result = "False"
    /\ Len(calls["t1"].trace) = 5
    /\ calls["t1"].trace[1] = OkW(26, "LOW")
    /\ calls["t1"].trace[3] = OkW(19, "LOW")
    /\ ~calls["t1"].trace[5].ok
    /\ calls["t2"].trace[5].pin = 19

\* What a call has done so far is the beginning of its method, each statement
\* at most once and in order; a write that raised is the last thing it did,
\* and it has returned False; on an initialized hardware backend it returns
\* True after the last statement and not before.
RunsOnceThrough(f) ==
    /\ Len(f.trace) <= Len(f.prog)
    /\ \A i \in 1..Len(f.trace) :
          /\ f.trace[i] = Ev(f.prog[i], f.trace[i].ok)
          /\ ~f.trace[i].ok => (i = Len(f.trace) /\ f.trace[i].k = "write")
    /\ f.failed <=> (\E i \in 1..Len(f.trace) : ~f.trace[i].ok)
    /\ f.failed => (f.phase = "returned" /\ f.result = "False")
    /\ f.phase = "running" => (f.result = "none" /\ f.pc = Len(f.trace) + 1)
    /\ f.phase = "returned" => f.result \in {"True", "False"}
    /\ (f.phase = "returned" /\ f.svcInit = "ok") =>
          (f.result = "True" <=> (Len(f.trace) = Len(f.prog) /\ ~f.failed))

\* C23: every started call of pulse_pin, hold_pin_low, sequence_ab,
\* sequence_ba or set_pin_state returns True or False in the end, with another
\* caller at work on the same pins or without: it runs its statements once
\* each, in order, up to the last one or up to the first write that raises,
\* never repeats a write, and waits for nobody.
C23_EngineCallsTerminate ==
    \A t \in RaceThreads :
        /\ [](calls[t].op \in RaceMethods => RunsOnceThrough(calls[t]))
        /\ [](calls[t].phase = "running" => ENABLED Step(t))
        /\ (calls[t].phase = "running")
              ~> (calls[t].phase = "returned"
                    /\ calls[t].result \in {"True", "False"})

\* Both threads are in the middle of a sequence on pins 19 and 26 at once,
\* and one of them has just written a pin the other holds LOW.
C23_Witness ==
    /\ calls["t1"].phase = "running"
    /\ calls["t1"].op = "sequence_ba"
    /\ Len(calls["t1"].trace) = 3
    /\ calls["t2"].phase = "running"
    /\ calls["t2"].op = "sequence_ab"
    /\ Len(calls["t2"].trace) = 5
    /\ hw.level[26] = "HIGH"

\* C24: a connect request that names a connection id that does not exist is
\* answered 404 and a disconnect request for a device that has no connection
\* is answered 400, and neither changes any device; a connect that succeeds
\* (200) sets the reference of the addressed device to exactly the named
\* connection, a disconnect that succeeds (200) sets it to null, and both
\* leave every other device and every connection as they were.
C24_ConnectDisconnectErrorsChangeNothing ==
    [][\A t \in Threads :
         (calls[t].phase = "idle"
            /\ calls'[t].handler \in {"connect", "disconnect"})
         => LET f == calls'[t]
                mine == {d \in devs : d.id = f.req.dev}
                named == {c \in conns : c.id = f.req.conn}
                attached == \E d \in mine : d.connected_to # 0
                after(ref) == {IF d.id = f.req.dev
                               THEN [d EXCEPT !.connected_to = ref]
                               ELSE d : d \in devs}
            IN  /\ conns' = conns
                /\ f.resp.status \in {200, 400, 404}
                /\ f.resp.status # 200 => devs' = devs
                /\ mine = {} => f.resp.status = 404
                /\ (f.handler = "connect" /\ mine # {}) =>
                      IF named = {} THEN f.resp.status = 404
                      ELSE f.resp.status = 200 /\ devs' = after(f.req.conn)
                /\ (f.handler = "disconnect" /\ mine # {}) =>
                      IF ~attached THEN f.resp.status = 400
                      ELSE f.resp.status = 200 /\ devs' = after(0)]_vars

\* A connect of device 1 to connection 3, which does not exist, has been
\* answered 404; the device is still attached to connection 1.
C24_Witness ==
    \E t \in Threads :
        /\ calls[t].handler = "connect"
        /\ calls[t].req.dev = 1 /\ calls[t].req.conn = 3
        /\ calls[t].found
        /\ calls[t].resp.status = 404
        /\ \A c \in conns : c.id # 3
        /\ \E c \in conns : c.id = 1
        /\ \E d \in devs : d.id = 1 /\ d.connected_to = 1

\* C25: a reset, force-recovery or set-pin request on a connection whose
\* is_enabled flag is false issues no pin write: it does not reach a
\* GPIO.output call.
C25_DisabledConnectionNotControlled ==
    \A t \in Threads :
        LET f == calls[t]
        IN  (f.handler \in {"reset", "force_recovery", "set_pin"}
                /\ \E c \in conns : c.id = f.req.conn /\ ~c.is_enabled)
            => f.trace = <<>>

\* A request on connection 2, which is disabled, has been served.
C25_Witness ==
    \E t \in Threads :
        /\ calls[t].handler = "force_recovery"
        /\ calls[t].req.conn = 2
        /\ calls[t].phase = "responded"
        /\ calls[t].op # "none"
        /\ \E c \in conns : c.id = 2 /\ ~c.is_enabled

\* C26: every pin that a reset request hands to GPIO.output on an initialized
\* hardware backend is, at that moment, a pin that setup_pins has configured
\* as an output since the backend was initialized, whatever creates, updates
\* and shutdowns came before.
C26_WrittenPinsAreConfigured ==
    \A t \in Threads :
        LET f == calls[t]
        IN  (f.handler = "reset" /\ f.svcInit = "ok")
            => \A i \in 1..Len(f.trace) :
                  f.trace[i].k = "write" => f.trace[i].pin \in hw.out

\* A reset of a connection created through the API, whose pins
\* perform_create has set up, has written its reset pin.
C26_Witness ==
    \E t \in Threads :
        /\ calls[t].handler = "reset"
        /\ calls[t].svcInit = "ok"
        /\ Len(calls[t].trace) = 3
        /\ calls[t].trace[1].pin \in hw.out
        /\ calls[t].resp.success = "true"

=============================================================================
